---- MODULE Spec2Model ----
(***************************************************************************)
(* A model of src/main.py: the diff chunker (chunk_text), the completion   *)
(* client (call_llm), the pass orchestrator (multiple_pass / llm_once) and *)
(* the command entry point (main).                                          *)
(*                                                                          *)
(* Texts are sequences of one-character strings.  Offsets (start, end, cut) *)
(* keep Python's 0-based convention; Slice and RFind translate them to the  *)
(* 1-based sequences of TLA+.  Durations are integers in milliseconds.      *)
(***************************************************************************)
EXTENDS Integers, Sequences, FiniteSets, TLC

VARIABLES
    \* ---- chunk_text (src/main.py:29-42)
    text,          \* parameter text
    max_chars,     \* parameter max_chars
    max_chunks,    \* parameter max_chunks
    chunks,        \* local list chunks; the returned list once cpc = "returned"
    start,         \* local offset start
    cpc,           \* position in chunk_text: "idle", "entry", "loop", "returned"
    \* ---- call_llm (src/main.py:45-117)
    lpc,           \* "idle", "attempting", "sleeping", "succeeded", "failed"
    max_attempts,  \* parameter max_attempts
    base_backoff,  \* parameter base_backoff (ms)
    max_backoff,   \* parameter max_backoff (ms)
    attempt,       \* loop variable attempt
    requests,      \* number of POSTs issued by this invocation
    nsleeps,       \* number of time.sleep calls made by this invocation
    resp,          \* outcome of this iteration's POST: a response, a network
                   \* failure, or NoResp before the POST
    backoff_s,     \* sleep_s as computed with jitter, before Retry-After (ms)
    sleep_s,       \* argument of the pending time.sleep (ms)
    status_only,   \* no POST of this invocation has failed at network level
    result,        \* returned text when lpc = "succeeded"
    err,           \* raised error when lpc = "failed"
    \* ---- multiple_pass / llm_once / main (src/main.py:128-201)
    pc,            \* position in main / multiple_pass
    diff_text,     \* content read from the diff file
    parts,         \* parts = chunk_text(...)
    idx,           \* 1-based index of the fragment being reviewed
    summaries,     \* list summaries: label and body per reviewed fragment
    synthesis,     \* the summaries joined into the synthesis call's input
    calls,         \* log of the call_llm invocations made by this run
    review,        \* value returned by multiple_pass
    out_file,      \* content of the output file, or NoFile
    exit_code,     \* process exit status, -1 while running
    \* ---- what the run is given (src/main.py:163-165, 176)
    settings,      \* whether LLM_API_URL, LLM_API_KEY, LLM_MODEL_NAME hold a value
    diff_file,     \* what the path given as --diff holds
    \* ---- load_agent_instructions on its own (src/main.py:120-125)
    rpc,           \* position in load_agent_instructions
    explicit_path, \* whether explicit_path is given
    fs,            \* state of the file at each candidate path
    system_text    \* the source whose text is returned

chunk_vars == <<text, max_chars, max_chunks, chunks, start, cpc>>
call_vars  == <<lpc, max_attempts, base_backoff, max_backoff, attempt, requests,
                nsleeps, resp, backoff_s, sleep_s, status_only, result, err>>
main_vars  == <<pc, diff_text, parts, idx, summaries, synthesis, calls, review, out_file,
                exit_code>>
env_vars   == <<settings, diff_file>>
resolve_vars == <<rpc, explicit_path, fs, system_text>>
vars == <<chunk_vars, call_vars, main_vars, env_vars, resolve_vars>>

-----------------------------------------------------------------------------
(* Bounds of the model *)

MaxLen == 8          \* longest text given to chunk_text on its own
MaxChars == 7        \* largest max_chars given to chunk_text on its own
MaxChunks == 3       \* largest max_chunks given to chunk_text on its own
MaxAttempts == 3     \* largest max_attempts given to call_llm on its own
MaxDiffLen == 3      \* longest diff file read by main

-----------------------------------------------------------------------------
(* Characters and Python's sequence primitives *)

NL == "\n"
AT == "@"
Chars == {NL, AT}

\* the literal '\n@@' searched for by chunk_text
HunkMarker == <<NL, AT, AT>>

Min(a, b) == IF a <= b THEN a ELSE b
Max(a, b) == IF a >= b THEN a ELSE b

SetMax(S) == CHOOSE x \in S : \A y \in S : y <= x

\* All sequences over S of length 0..n
SeqUpTo(S, n) == UNION {[1..k -> S] : k \in 0..n}

\* Python s[a:b] for 0 <= a
Slice(s, a, b) ==
    LET hi == Min(b, Len(s))
    IN IF a >= hi THEN <<>> ELSE SubSeq(s, a + 1, hi)

\* Python s.rfind(sub, lo, hi) for 0 <= lo: the highest index i with
\* lo <= i, i + len(sub) <= min(hi, len(s)) and s[i:i+len(sub)] = sub; else -1
RFind(s, sub, lo, hi) ==
    LET top  == Min(hi, Len(s)) - Len(sub)
        cand == {i \in lo..top : SubSeq(s, i + 1, i + Len(sub)) = sub}
    IN IF cand = {} THEN -1 ELSE SetMax(cand)

RECURSIVE Concat(_)
Concat(ss) == IF ss = <<>> THEN <<>> ELSE Head(ss) \o Concat(Tail(ss))

\* Python str.strip() emptiness test: every character is whitespace
IsBlank(s) == \A i \in 1..Len(s) : s[i] = NL

-----------------------------------------------------------------------------
(* chunk_text *)

\* faulty variant of FitsOneChunk: a strict comparison
FitsOneChunk_strict(t, mc) == Len(t) < mc

\* line 30: len(text) <= max_chars
FitsOneChunk(t, mc) == Len(t) <= mc

\* line 33: the loop condition
LoopGuard(t, st, cs, mk) == st < Len(t) /\ Len(cs) < mk

\* line 34: end = min(start + max_chars, len(text))
NaiveEnd(t, st, mc) == Min(st + mc, Len(t))

\* faulty variant of CutPoint: any marker after the offset is taken, the
\* midpoint is not looked at
CutPoint_nomid(t, st, mc) ==
    LET end == NaiveEnd(t, st, mc)
        cut == RFind(t, HunkMarker, st, end)
    IN IF cut = -1 \/ cut <= st THEN end ELSE cut

\* faulty variant of CutPoint: any marker found is taken, also one at the offset
CutPoint_anymarker(t, st, mc) ==
    LET end == NaiveEnd(t, st, mc)
        cut == RFind(t, HunkMarker, st, end)
    IN IF cut = -1 THEN end ELSE cut

\* lines 35-37: the cut chosen for the window [start, end)
CutPoint(t, st, mc) ==
    LET end == NaiveEnd(t, st, mc)
        cut == RFind(t, HunkMarker, st, end)
    IN IF cut = -1 \/ cut <= st + (mc \div 2) THEN end ELSE cut

\* faulty variant of TailChunk: the whole remainder, text[start:]
TailChunk_rest(t, st, mc) == Slice(t, st, Len(t))

\* line 41: text[start:start + max_chars]
TailChunk(t, st, mc) == Slice(t, st, st + mc)

\* lines 30-31
ChunkWhole ==
    /\ cpc = "entry"
    /\ FitsOneChunk(text, max_chars)
    /\ chunks' = <<text>>
    /\ cpc' = "returned"
    /\ UNCHANGED <<text, max_chars, max_chunks, start>>
    /\ UNCHANGED <<call_vars, main_vars, env_vars, resolve_vars>>

\* line 32
ChunkInit ==
    /\ cpc = "entry"
    /\ ~FitsOneChunk(text, max_chars)
    /\ chunks' = <<>>
    /\ start' = 0
    /\ cpc' = "loop"
    /\ UNCHANGED <<text, max_chars, max_chunks>>
    /\ UNCHANGED <<call_vars, main_vars, env_vars, resolve_vars>>

\* lines 33-39: one iteration of the while loop
ChunkStep ==
    /\ cpc = "loop"
    /\ LoopGuard(text, start, chunks, max_chunks)
    /\ LET cut == CutPoint(text, start, max_chars)
       IN /\ chunks' = Append(chunks, Slice(text, start, cut))
          /\ start' = cut
    /\ UNCHANGED <<text, max_chars, max_chunks, cpc>>
    /\ UNCHANGED <<call_vars, main_vars, env_vars, resolve_vars>>

\* lines 40-42: loop exit, the optional final fragment, return
ChunkTail ==
    /\ cpc = "loop"
    /\ ~LoopGuard(text, start, chunks, max_chunks)
    /\ chunks' = IF start < Len(text)
                 THEN Append(chunks, TailChunk(text, start, max_chars))
                 ELSE chunks
    /\ cpc' = "returned"
    /\ UNCHANGED <<text, max_chars, max_chunks, start>>
    /\ UNCHANGED <<call_vars, main_vars, env_vars, resolve_vars>>

ChunkNext == ChunkWhole \/ ChunkInit \/ ChunkStep \/ ChunkTail

-----------------------------------------------------------------------------
(* call_llm: constants and inputs *)

\* line 11
RETRY_STATUS == {408, 409, 425, 429, 500, 502, 503, 504}

\* lines 53-55: the defaults, which llm_once leaves in force (line 134)
DefaultMaxAttempts == 5
DefaultBaseBackoff == 1000
DefaultMaxBackoff == 10000

\* resp.headers.get("Retry-After") is None
NoRetryAfter == "<None>"

\* Retry-After header values the endpoint may send
HttpDate == "Wed, 21 Oct 2026 07:28:00 GMT"
RetryAfterValues == {NoRetryAfter, "", HttpDate, "0.5", "5", "nan", "inf"}

\* random.random() in [0, 1), in tenths
RandTenths == {0, 5, 9}

\* message contents the endpoint may return
SP == " "
Contents == {<<"r">>, <<SP, "r", NL>>, <<SP>>}

\* Bodies of HTTP 200 responses, by what resp.json() and the extraction make of them:
\*   not_json            resp.json() raises ValueError
\*   content_string      {"choices":[{"message":{"content":"..."}}]}
\*   content_missing     {"choices":[{"message":{}}]}
\*   content_not_string  {"choices":[{"message":{"content":null}}]}
\*   choices_empty       {"choices":[]}
\*   message_null        {"choices":[{"message":null}]}
Body(shape, content) == [shape |-> shape, content |-> content]
NoBody == Body("none", <<>>)
Bodies200 ==
    {Body("content_string", c) : c \in Contents}
    \cup {Body(sh, <<>>) : sh \in {"not_json", "content_missing", "content_not_string",
                                   "choices_empty", "message_null"}}

Response(kind, status, ra, body) ==
    [kind |-> kind, status |-> status, ra |-> ra, body |-> body]
NoResp == Response("none", 0, NoRetryAfter, NoBody)
NetworkFailure == Response("network", 0, NoRetryAfter, NoBody)

\* statuses outside RETRY_STATUS and other than 200 that the endpoint may send
OtherStatus == {201, 404}

\* What one POST may produce.  Every retryable status is sent without the header,
\* and 429 and 503 with each header value.
Responses ==
    {NetworkFailure}
    \cup {Response("http", 200, NoRetryAfter, b) : b \in Bodies200}
    \cup {Response("http", s, NoRetryAfter, NoBody) : s \in RETRY_STATUS \cup OtherStatus}
    \cup {Response("http", s, h, NoBody) : s \in {429, 503}, h \in RetryAfterValues}

NoErr == [type |-> "none", status |-> 0, attempts |-> 0]
Error(type, status, attempts) == [type |-> type, status |-> status, attempts |-> attempts]

-----------------------------------------------------------------------------
(* call_llm: pure parts *)

RECURSIVE Pow2(_)
Pow2(n) == IF n <= 0 THEN 1 ELSE 2 * Pow2(n - 1)

\* lines 87 and 104: min(max_backoff, base_backoff * (2 ** (attempt - 1)))
BaseDelay(att, base, cap) == Min(cap, base * Pow2(att - 1))

\* faulty variant of Jittered: the factor ranges over [0.5, 1.5)
Jittered_wide(ms, r) == (ms * (50 + 10 * r)) \div 100

\* lines 88 and 105: sleep_s *= 0.7 + 0.6 * random.random()
Jittered(ms, r) == (ms * (70 + 6 * r)) \div 100

\* faulty variant of IsRetryable: 404 is retried too
IsRetryable_wide(status) == status \in RETRY_STATUS \cup {404}

\* line 103, first conjunct
IsRetryable(status) == status \in RETRY_STATUS

\* faulty variant of AttemptsRemain: the last attempt counts as remaining
AttemptsRemain_inclusive(att, maxatt) == att <= maxatt

\* lines 86 and 103: attempt < max_attempts
AttemptsRemain(att, maxatt) == att < maxatt

\* float(retry_after), line 109: a finite value (ms), nan, inf, or ValueError
ParseFloat(h) ==
    CASE h = "0.5" -> [ok |-> TRUE,  kind |-> "finite", ms |-> 500]
      [] h = "5"   -> [ok |-> TRUE,  kind |-> "finite", ms |-> 5000]
      [] h = "nan" -> [ok |-> TRUE,  kind |-> "nan",    ms |-> 0]
      [] h = "inf" -> [ok |-> TRUE,  kind |-> "inf",    ms |-> 0]
      [] OTHER     -> [ok |-> FALSE, kind |-> "error",  ms |-> 0]

\* line 107: `if retry_after:` -- None and '' are falsy
Truthy(h) == h # NoRetryAfter /\ h # ""

\* lines 106-111: the argument handed to time.sleep.  Python's max(a, b) returns a
\* unless b > a, so max(nan, s) is nan and max(inf, s) is inf.
SleepArg(h, computed) ==
    IF ~Truthy(h) THEN [kind |-> "finite", ms |-> computed]
    ELSE LET v == ParseFloat(h)
         IN IF ~v.ok THEN [kind |-> "finite", ms |-> computed]
            ELSE IF v.kind = "finite" THEN [kind |-> "finite", ms |-> Max(v.ms, computed)]
            ELSE [kind |-> v.kind, ms |-> 0]

\* str.strip(): whitespace removed at both ends
IsSpace(c) == c \in {SP, NL}
RECURSIVE LStrip(_)
LStrip(s) == IF s # <<>> /\ IsSpace(Head(s)) THEN LStrip(Tail(s)) ELSE s
RECURSIVE RStrip(_)
RStrip(s) == IF s # <<>> /\ IsSpace(s[Len(s)]) THEN RStrip(SubSeq(s, 1, Len(s) - 1)) ELSE s
Strip(s) == RStrip(LStrip(s))

\* lines 98-101: the value returned for a parsed body, or the exception the
\* extraction raises
Extract(body) ==
    CASE body.shape = "content_string"     -> [ok |-> TRUE,  text |-> Strip(body.content), exc |-> "none"]
      [] body.shape = "content_missing"    -> [ok |-> TRUE,  text |-> <<>>, exc |-> "none"]
      [] body.shape = "content_not_string" -> [ok |-> TRUE,  text |-> <<>>, exc |-> "none"]
      [] body.shape = "choices_empty"      -> [ok |-> FALSE, text |-> <<>>, exc |-> "IndexError"]
      [] body.shape = "message_null"       -> [ok |-> FALSE, text |-> <<>>, exc |-> "AttributeError"]


-----------------------------------------------------------------------------
(* call_llm: the attempt loop.  Each Attempt* action is one iteration of the  *)
(* for loop (lines 75-115) up to its return, raise, or time.sleep; CallWake   *)
(* is the return of time.sleep and the `continue`.                            *)

config_vars == <<max_attempts, base_backoff, max_backoff>>
sleep_vars  == <<backoff_s, sleep_s>>

\* entry of call_llm with the given attempt budget and backoff settings
CallEnter(maxatt, base, cap) ==
    /\ lpc' = "attempting"
    /\ max_attempts' = maxatt
    /\ base_backoff' = base
    /\ max_backoff' = cap
    /\ attempt' = 1
    /\ requests' = 0
    /\ nsleeps' = 0
    /\ resp' = NoResp
    /\ backoff_s' = 0
    /\ sleep_s' = 0
    /\ status_only' = TRUE
    /\ result' = <<>>
    /\ err' = NoErr

\* faulty variant of InLoop: range(1, max_attempts + 2)
InLoop_extra == lpc = "attempting" /\ attempt <= max_attempts + 1

\* line 75: the loop body runs for attempt in 1..max_attempts
InLoop == lpc = "attempting" /\ attempt <= max_attempts

\* call_llm raises
Raise(r, e) ==
    /\ lpc' = "failed"
    /\ resp' = r
    /\ err' = e
    /\ UNCHANGED <<attempt, nsleeps, result, sleep_vars, config_vars>>

\* lines 85-90: the POST raised, attempts remain: sleep the jittered backoff
AttemptNetworkRetry ==
    /\ InLoop
    /\ AttemptsRemain(attempt, max_attempts)
    /\ \E r \in RandTenths :
         LET computed == Jittered(BaseDelay(attempt, base_backoff, max_backoff), r)
         IN /\ backoff_s' = computed
            /\ sleep_s' = computed
    /\ requests' = requests + 1
    /\ nsleeps' = nsleeps + 1
    /\ resp' = NetworkFailure
    /\ status_only' = FALSE
    /\ lpc' = "sleeping"
    /\ UNCHANGED <<attempt, result, err, config_vars>>
    /\ UNCHANGED <<chunk_vars, main_vars, env_vars, resolve_vars>>

\* lines 85-86, 91: the POST raised on the last attempt
AttemptNetworkFail ==
    /\ InLoop
    /\ ~AttemptsRemain(attempt, max_attempts)
    /\ requests' = requests + 1
    /\ status_only' = FALSE
    /\ Raise(NetworkFailure, Error("RuntimeError_transport", 0, attempt))
    /\ UNCHANGED <<chunk_vars, main_vars, env_vars, resolve_vars>>

\* lines 93-101: HTTP 200 whose body parses and yields a return value
AttemptOk ==
    /\ InLoop
    /\ \E r \in Responses :
         /\ r.kind = "http" /\ r.status = 200
         /\ r.body.shape # "not_json"
         /\ Extract(r.body).ok
         /\ resp' = r
         /\ result' = Extract(r.body).text
    /\ requests' = requests + 1
    /\ lpc' = "succeeded"
    /\ UNCHANGED <<attempt, nsleeps, status_only, err, sleep_vars, config_vars>>
    /\ UNCHANGED <<chunk_vars, main_vars, env_vars, resolve_vars>>

\* faulty variant of AttemptBadJson: the parse failure is taken for a transient
\* one, slept on and retried
AttemptBadJson_retry ==
    /\ InLoop
    /\ \E r \in Responses :
         /\ r.kind = "http" /\ r.status = 200
         /\ r.body.shape = "not_json"
         /\ resp' = r
    /\ requests' = requests + 1
    /\ nsleeps' = nsleeps + 1
    /\ backoff_s' = 0
    /\ sleep_s' = 0
    /\ lpc' = "sleeping"
    /\ UNCHANGED <<attempt, status_only, result, err, config_vars>>
    /\ UNCHANGED <<chunk_vars, main_vars, env_vars, resolve_vars>>

\* lines 93-97: HTTP 200 whose body is not JSON
AttemptBadJson ==
    /\ InLoop
    /\ \E r \in Responses :
         /\ r.kind = "http" /\ r.status = 200
         /\ r.body.shape = "not_json"
         /\ Raise(r, Error("ValueError_json", 200, attempt))
    /\ requests' = requests + 1
    /\ UNCHANGED status_only
    /\ UNCHANGED <<chunk_vars, main_vars, env_vars, resolve_vars>>

\* lines 98-100: HTTP 200 whose JSON makes the extraction raise
AttemptBadShape ==
    /\ InLoop
    /\ \E r \in Responses :
         /\ r.kind = "http" /\ r.status = 200
         /\ r.body.shape # "not_json"
         /\ ~Extract(r.body).ok
         /\ Raise(r, Error(Extract(r.body).exc, 200, attempt))
    /\ requests' = requests + 1
    /\ UNCHANGED status_only
    /\ UNCHANGED <<chunk_vars, main_vars, env_vars, resolve_vars>>

\* lines 103-113: retryable status, attempts remain, time.sleep accepts its argument
AttemptRetryStatus ==
    /\ InLoop
    /\ AttemptsRemain(attempt, max_attempts)
    /\ \E r \in Responses, j \in RandTenths :
         LET computed == Jittered(BaseDelay(attempt, base_backoff, max_backoff), j)
             arg      == SleepArg(r.ra, computed)
         IN /\ r.kind = "http" /\ r.status # 200
            /\ IsRetryable(r.status)
            /\ arg.kind = "finite"
            /\ backoff_s' = computed
            /\ sleep_s' = arg.ms
            /\ resp' = r
    /\ requests' = requests + 1
    /\ nsleeps' = nsleeps + 1
    /\ lpc' = "sleeping"
    /\ UNCHANGED <<attempt, status_only, result, err, config_vars>>
    /\ UNCHANGED <<chunk_vars, main_vars, env_vars, resolve_vars>>

\* lines 103-112: retryable status, attempts remain, time.sleep rejects its argument
\* (ValueError for nan, OverflowError for inf)
AttemptSleepRaises ==
    /\ InLoop
    /\ AttemptsRemain(attempt, max_attempts)
    /\ \E r \in Responses, j \in RandTenths :
         LET computed == Jittered(BaseDelay(attempt, base_backoff, max_backoff), j)
             arg      == SleepArg(r.ra, computed)
         IN /\ r.kind = "http" /\ r.status # 200
            /\ IsRetryable(r.status)
            /\ arg.kind # "finite"
            /\ Raise(r, Error(IF arg.kind = "nan" THEN "ValueError_sleep"
                                                  ELSE "OverflowError_sleep",
                              r.status, attempt))
    /\ requests' = requests + 1
    /\ UNCHANGED status_only
    /\ UNCHANGED <<chunk_vars, main_vars, env_vars, resolve_vars>>

\* lines 103, 115: any other status, or a retryable one on the last attempt
AttemptHttpError ==
    /\ InLoop
    /\ \E r \in Responses :
         /\ r.kind = "http" /\ r.status # 200
         /\ ~(IsRetryable(r.status) /\ AttemptsRemain(attempt, max_attempts))
         /\ Raise(r, Error("RuntimeError_http", r.status, attempt))
    /\ requests' = requests + 1
    /\ UNCHANGED status_only
    /\ UNCHANGED <<chunk_vars, main_vars, env_vars, resolve_vars>>

\* lines 89-90, 112-113: time.sleep returns, `continue` starts the next iteration
CallWake ==
    /\ lpc = "sleeping"
    /\ attempt' = attempt + 1
    /\ lpc' = "attempting"
    /\ resp' = NoResp
    /\ backoff_s' = 0
    /\ sleep_s' = 0
    /\ UNCHANGED <<requests, nsleeps, status_only, result, err, config_vars>>
    /\ UNCHANGED <<chunk_vars, main_vars, env_vars, resolve_vars>>

\* line 117: the loop ended without return or raise
CallExhausted ==
    /\ lpc = "attempting"
    /\ attempt > max_attempts
    /\ lpc' = "failed"
    /\ err' = Error("RuntimeError_exhausted", 0, max_attempts)
    /\ UNCHANGED <<attempt, requests, nsleeps, resp, status_only, result,
                   sleep_vars, config_vars>>
    /\ UNCHANGED <<chunk_vars, main_vars, env_vars, resolve_vars>>

CallNext ==
    \/ AttemptNetworkRetry
    \/ AttemptNetworkFail
    \/ AttemptOk
    \/ AttemptBadJson
    \/ AttemptBadShape
    \/ AttemptRetryStatus
    \/ AttemptSleepRaises
    \/ AttemptHttpError
    \/ CallWake


-----------------------------------------------------------------------------
(* main, multiple_pass, llm_once *)

\* values of LLM_MAX_CHARS_PER_CHUNK and LLM_MAX_CHUNKS the environment may hold
EnvMaxChars == {1, 2}
EnvMaxChunks == {0, 1, 2}

\* what _load_text(diff_path) may meet: an unreadable path, or a file's content
DiffFiles ==
    {[readable |-> FALSE, content |-> <<>>]}
    \cup {[readable |-> TRUE, content |-> t] : t \in SeqUpTo(Chars, MaxDiffLen)}

\* lines 163-165: which of the three required variables the environment holds
Settings == [url : BOOLEAN, key : BOOLEAN, model : BOOLEAN]

\* line 172: not url or not key or not model is false
RequiredSet(e) == e.url /\ e.key /\ e.model

\* faulty variant of DiffUsable: the content is not stripped before the test
DiffUsable_nostrip(f) == f.readable /\ f.content # <<>>

\* lines 176-178: _load_text succeeds and diff_text.strip() is not empty
DiffUsable(f) == f.readable /\ ~IsBlank(f.content)

NoFile == [written |-> FALSE, body |-> <<>>]

\* lines 120-125.  fs maps a candidate path to "missing", "text" or "unreadable";
\* the value is the chosen source, or "raise" when _load_text fails on it
InstructionPaths == {"explicit", ".github/AGENTS.md", "AGENTS.md"}
Candidates(explicit) ==
    IF explicit THEN <<"explicit">> ELSE <<".github/AGENTS.md", "AGENTS.md">>
RECURSIVE FirstExisting(_, _)
FirstExisting(cands, files) ==
    IF cands = <<>> THEN "SYSTEM_FALLBACK"
    ELSE IF files[Head(cands)] = "missing" THEN FirstExisting(Tail(cands), files)
    ELSE IF files[Head(cands)] = "text" THEN Head(cands)
    ELSE "raise"
load_agent_instructions(explicit, files) == FirstExisting(Candidates(explicit), files)

FileStates == {"missing", "text", "unreadable"}

\* lines 121-123: a candidate exists and _load_text returns its text
ResolveReturnFile ==
    /\ rpc = "entry"
    /\ load_agent_instructions(explicit_path, fs) \in InstructionPaths
    /\ system_text' = load_agent_instructions(explicit_path, fs)
    /\ rpc' = "returned"
    /\ UNCHANGED <<explicit_path, fs>>
    /\ UNCHANGED <<chunk_vars, call_vars, main_vars, env_vars>>

\* line 124: no candidate exists
ResolveFallback ==
    /\ rpc = "entry"
    /\ load_agent_instructions(explicit_path, fs) = "SYSTEM_FALLBACK"
    /\ system_text' = "SYSTEM_FALLBACK"
    /\ rpc' = "returned"
    /\ UNCHANGED <<explicit_path, fs>>
    /\ UNCHANGED <<chunk_vars, call_vars, main_vars, env_vars>>

\* line 123: a candidate exists and _load_text raises on it
ResolveRaise ==
    /\ rpc = "entry"
    /\ load_agent_instructions(explicit_path, fs) = "raise"
    /\ rpc' = "raised"
    /\ UNCHANGED <<explicit_path, fs, system_text>>
    /\ UNCHANGED <<chunk_vars, call_vars, main_vars, env_vars>>

ResolveNext == ResolveReturnFile \/ ResolveFallback \/ ResolveRaise

\* the process ends with the given exit status
Exit(code) ==
    /\ pc' = "exited"
    /\ exit_code' = code

\* lines 163-174: read the environment, check the required settings
MainConfig ==
    /\ pc = "main"
    /\ \E mc \in EnvMaxChars, mk \in EnvMaxChunks :
         IF RequiredSet(settings)
         THEN /\ max_chars' = mc
              /\ max_chunks' = mk
              /\ pc' = "load"
              /\ UNCHANGED exit_code
         ELSE /\ Exit(1)
              /\ UNCHANGED <<max_chars, max_chunks>>
    /\ UNCHANGED <<text, chunks, start, cpc, call_vars, diff_text, parts, idx,
                   summaries, synthesis, calls, review, out_file>>
    /\ UNCHANGED <<env_vars, resolve_vars>>

\* lines 176-180: read the diff, reject an empty one
MainLoad ==
    /\ pc = "load"
    /\ LET f == diff_file
       IN
         IF DiffUsable(f)
         THEN /\ diff_text' = f.content
              /\ pc' = "resolve"
              /\ UNCHANGED exit_code
         ELSE /\ Exit(1)
              /\ UNCHANGED diff_text
    /\ UNCHANGED <<chunk_vars, call_vars, parts, idx, summaries, synthesis, calls,
                   review, out_file>>
    /\ UNCHANGED <<env_vars, resolve_vars>>

\* line 182: resolve the system instructions
MainResolve ==
    /\ pc = "resolve"
    /\ \E explicit \in BOOLEAN, files \in [InstructionPaths -> FileStates] :
         /\ explicit => files["explicit"] # "missing"
         /\ IF load_agent_instructions(explicit, files) = "raise"
            THEN Exit(1)
            ELSE pc' = "pass" /\ UNCHANGED exit_code
    /\ UNCHANGED <<chunk_vars, call_vars, diff_text, parts, idx, summaries, synthesis,
                   calls, review, out_file>>
    /\ UNCHANGED <<env_vars, resolve_vars>>

\* line 140: multiple_pass calls chunk_text(diff_text, max_chars, max_chunks)
PassChunk ==
    /\ pc = "pass"
    /\ text' = diff_text
    /\ cpc' = "entry"
    /\ pc' = "chunking"
    /\ UNCHANGED <<max_chars, max_chunks, chunks, start, call_vars, diff_text, parts,
                   idx, summaries, synthesis, calls, review, out_file, exit_code>>
    /\ UNCHANGED <<env_vars, resolve_vars>>

\* faulty variant of SinglePass: the synthesis path is always taken
SinglePass_never(ps) == FALSE

\* line 141: len(parts) == 1
SinglePass(ps) == Len(ps) = 1

\* lines 140-141, 144: chunk_text returned
PassParts ==
    /\ pc = "chunking"
    /\ cpc = "returned"
    /\ parts' = chunks
    /\ cpc' = "idle"
    /\ idx' = 1
    /\ summaries' = <<>>
    /\ pc' = IF SinglePass(chunks) THEN "single" ELSE "loop"
    /\ UNCHANGED <<text, max_chars, max_chunks, chunks, start, call_vars, diff_text,
                   synthesis, calls, review, out_file, exit_code>>
    /\ UNCHANGED <<env_vars, resolve_vars>>

\* log entry of a call_llm invocation: what it was made for (kind, 1-based
\* fragment index or 0, the fragment) and how it has ended so far
CallLog(kind, i, frag) ==
    [kind |-> kind, index |-> i, input |-> frag, outcome |-> "running", result |-> <<>>]

\* lines 128-134: llm_once builds the messages and calls call_llm with the
\* default max_attempts, base_backoff and max_backoff
llm_once(kind, i, frag) ==
    /\ CallEnter(DefaultMaxAttempts, DefaultBaseBackoff, DefaultMaxBackoff)
    /\ calls' = Append(calls, CallLog(kind, i, frag))

\* how the invocation in progress stands
Outcome ==
    IF lpc = "succeeded" THEN "ok" ELSE IF lpc = "failed" THEN "failed" ELSE "running"

\* the log with the last call's outcome brought up to date
Logged ==
    [calls EXCEPT ![Len(calls)] = [@ EXCEPT !.outcome = Outcome, !.result = result]]

\* faulty variant of CallReturned: a raised error is swallowed
CallReturned_any == lpc \in {"succeeded", "failed"}

\* faulty variant of CallReturned: the caller goes on while the call sleeps
CallReturned_early == lpc \in {"succeeded", "sleeping"}

\* call_llm returned to its caller
CallReturned == lpc = "succeeded"

\* line 142: the single fragment is reviewed
PassCallSingle ==
    /\ pc = "single"
    /\ llm_once("fragment", 1, parts[1])
    /\ pc' = "single_wait"
    /\ UNCHANGED <<chunk_vars, diff_text, parts, idx, summaries, synthesis, review,
                   out_file, exit_code>>
    /\ UNCHANGED <<env_vars, resolve_vars>>

\* line 142: its result is the review
PassReturnSingle ==
    /\ pc = "single_wait"
    /\ CallReturned
    /\ review' = result
    /\ calls' = Logged
    /\ pc' = "write"
    /\ UNCHANGED <<chunk_vars, call_vars, diff_text, parts, idx, summaries, synthesis,
                   out_file, exit_code>>
    /\ UNCHANGED <<env_vars, resolve_vars>>

\* lines 145-147: the next fragment is reviewed
PassCallFragment ==
    /\ pc = "loop"
    /\ idx <= Len(parts)
    /\ llm_once("fragment", idx, parts[idx])
    /\ pc' = "frag_wait"
    /\ UNCHANGED <<chunk_vars, diff_text, parts, idx, summaries, synthesis, review,
                   out_file, exit_code>>
    /\ UNCHANGED <<env_vars, resolve_vars>>

\* faulty variant of Labelled: enumerate from 0
Labelled_shifted(i, body) == [label |-> i - 1, body |-> body]

\* line 146: f"### Part {i}\n" + result
Labelled(i, body) == [label |-> i, body |-> body]

\* lines 145-147: its labelled result is appended to summaries
PassFragmentDone ==
    /\ pc = "frag_wait"
    /\ CallReturned
    /\ summaries' = Append(summaries, Labelled(idx, result))
    /\ calls' = Logged
    /\ idx' = idx + 1
    /\ pc' = "loop"
    /\ UNCHANGED <<chunk_vars, call_vars, diff_text, parts, synthesis, review,
                   out_file, exit_code>>
    /\ UNCHANGED <<env_vars, resolve_vars>>

\* lines 148-152: the summaries are joined and handed to the synthesis call
PassCallSynthesis ==
    /\ pc = "loop"
    /\ idx > Len(parts)
    /\ synthesis' = summaries
    /\ llm_once("synthesis", 0, <<>>)
    /\ pc' = "synth_wait"
    /\ UNCHANGED <<chunk_vars, diff_text, parts, idx, summaries, review, out_file,
                   exit_code>>
    /\ UNCHANGED <<env_vars, resolve_vars>>

\* line 152: the synthesis result is the review
PassReturnSynthesis ==
    /\ pc = "synth_wait"
    /\ CallReturned
    /\ review' = result
    /\ calls' = Logged
    /\ pc' = "write"
    /\ UNCHANGED <<chunk_vars, call_vars, diff_text, parts, idx, summaries, synthesis,
                   out_file, exit_code>>
    /\ UNCHANGED <<env_vars, resolve_vars>>

Waiting == pc \in {"single_wait", "frag_wait", "synth_wait"}

\* call_llm raised: nothing catches the exception in llm_once, multiple_pass
\* or main, and the process ends with status 1
PassRaise ==
    /\ Waiting
    /\ lpc = "failed"
    /\ calls' = Logged
    /\ Exit(1)
    /\ UNCHANGED <<chunk_vars, call_vars, diff_text, parts, idx, summaries, synthesis,
                   review, out_file>>
    /\ UNCHANGED <<env_vars, resolve_vars>>

\* lines 197-201: write the Markdown file, print its path
MainWrite ==
    /\ pc = "write"
    /\ \E writable \in BOOLEAN :
         IF writable
         THEN /\ out_file' = [written |-> TRUE, body |-> Strip(review)]
              /\ Exit(0)
         ELSE /\ Exit(1)
              /\ UNCHANGED out_file
    /\ UNCHANGED <<chunk_vars, call_vars, diff_text, parts, idx, summaries, synthesis,
                   calls, review>>
    /\ UNCHANGED <<env_vars, resolve_vars>>

MainNext ==
    \/ MainConfig
    \/ MainLoad
    \/ MainResolve
    \/ PassChunk
    \/ PassParts
    \/ PassCallSingle
    \/ PassReturnSingle
    \/ PassCallFragment
    \/ PassFragmentDone
    \/ PassCallSynthesis
    \/ PassReturnSynthesis
    \/ PassRaise
    \/ MainWrite

-----------------------------------------------------------------------------
(* Specifications *)

ChunkIdle ==
    /\ text = <<>>
    /\ max_chars = 1
    /\ max_chunks = 0
    /\ chunks = <<>>
    /\ start = 0
    /\ cpc = "idle"

CallIdle ==
    /\ lpc = "idle"
    /\ max_attempts = 0
    /\ base_backoff = 0
    /\ max_backoff = 0
    /\ attempt = 0
    /\ requests = 0
    /\ nsleeps = 0
    /\ resp = NoResp
    /\ backoff_s = 0
    /\ sleep_s = 0
    /\ status_only = TRUE
    /\ result = <<>>
    /\ err = NoErr

MainIdle(p) ==
    /\ pc = p
    /\ diff_text = <<>>
    /\ parts = <<>>
    /\ idx = 0
    /\ summaries = <<>>
    /\ synthesis = <<>>
    /\ calls = <<>>
    /\ review = <<>>
    /\ out_file = NoFile
    /\ exit_code = -1

\* no environment and no diff are looked at
EnvUnused ==
    /\ settings = [url |-> FALSE, key |-> FALSE, model |-> FALSE]
    /\ diff_file = [readable |-> FALSE, content |-> <<>>]

ResolveIdle ==
    /\ rpc = "idle"
    /\ explicit_path = FALSE
    /\ fs = [p \in InstructionPaths |-> "missing"]
    /\ system_text = ""

\* The program: main is entered, in some environment and with some diff file
Init ==
    /\ ChunkIdle /\ CallIdle /\ MainIdle("main") /\ ResolveIdle
    /\ settings \in Settings
    /\ diff_file \in DiffFiles

\* line 117 is left out: with the default max_attempts the loop always ends in a
\* return or a raise
Next == MainNext \/ ChunkNext \/ CallNext

Spec == Init /\ [][Next]_vars

\* chunk_text on its own, over every text and setting within the bounds
InitChunk ==
    /\ text \in SeqUpTo(Chars, MaxLen)
    /\ max_chars \in 1..MaxChars
    /\ max_chunks \in 0..MaxChunks
    /\ chunks = <<>>
    /\ start = 0
    /\ cpc = "entry"
    /\ CallIdle
    /\ MainIdle("idle")
    /\ EnvUnused
    /\ ResolveIdle

NextChunk == ChunkNext

SpecChunk == InitChunk /\ [][NextChunk]_vars

\* call_llm on its own, over every attempt budget within the bound
BackoffSettings == {<<1000, 10000>>, <<1000, 1500>>}

InitCall ==
    /\ ChunkIdle
    /\ MainIdle("idle")
    /\ EnvUnused
    /\ ResolveIdle
    /\ max_attempts \in 0..MaxAttempts
    /\ \E b \in BackoffSettings : base_backoff = b[1] /\ max_backoff = b[2]
    /\ lpc = "attempting"
    /\ attempt = 1
    /\ requests = 0
    /\ nsleeps = 0
    /\ resp = NoResp
    /\ backoff_s = 0
    /\ sleep_s = 0
    /\ status_only = TRUE
    /\ result = <<>>
    /\ err = NoErr

NextCall == CallNext \/ CallExhausted

SpecCall == InitCall /\ [][NextCall]_vars

\* the same, with the interpreter running the one thread on: a POST returns or
\* raises within its timeout (line 83) and time.sleep returns
SpecCallFair == InitCall /\ [][NextCall]_vars /\ WF_vars(NextCall)

\* load_agent_instructions on its own, over every explicit_path and every state of
\* the three candidate files
InitResolve ==
    /\ ChunkIdle
    /\ CallIdle
    /\ MainIdle("idle")
    /\ EnvUnused
    /\ rpc = "entry"
    /\ explicit_path \in BOOLEAN
    /\ fs \in [InstructionPaths -> FileStates]
    /\ system_text = ""

NextResolve == ResolveNext

SpecResolve == InitResolve /\ [][NextResolve]_vars

-----------------------------------------------------------------------------
(* Claims *)

\* the retryable set as the claims enumerate it
ClaimRetryable == {408, 409, 425, 429, 500, 502, 503, 504}

CallEnded == lpc \in {"succeeded", "failed"}

\* C1: for every text longer than max_chars (max_chars >= 1, max_chunks >= 1) the
\* fragments returned by chunk_text concatenate, in order, to the input text, and
\* there are at most max_chunks + 1 of them.
C1_ReconstructsInput ==
    (cpc = "returned" /\ Len(text) > max_chars /\ max_chars >= 1 /\ max_chunks >= 1)
        => /\ Concat(chunks) = text
           /\ Len(chunks) <= max_chunks + 1

\* C2: for every text no longer than max_chars, chunk_text returns exactly one
\* fragment, equal to the input, whatever max_chunks is and whether or not the
\* text holds hunk markers.
C2_SmallTextOneFragment ==
    (cpc = "returned" /\ Len(text) <= max_chars) => chunks = <<text>>

\* a text of exactly max_chars characters with a hunk marker past the midpoint,
\* returned whole although max_chunks is 0
C2_Witness ==
    /\ cpc = "returned"
    /\ Len(text) = max_chars
    /\ max_chunks = 0
    /\ RFind(text, HunkMarker, 0, Len(text)) > max_chars \div 2
    /\ chunks = <<text>>

\* multiple_pass has returned its review
PassReturned ==
    \/ pc = "write"
    \/ pc = "exited" /\ calls # <<>> /\ calls[Len(calls)].outcome = "ok"

KindCount(k) == Cardinality({i \in DOMAIN calls : calls[i].kind = k})

\* C3: a successful run of multiple_pass over a diff that chunks into N fragments
\* has made exactly N call_llm invocations when N = 1 and N + 1 when N > 1: one
\* per fragment, and one synthesis call if and only if N > 1.
C3_CallCount ==
    PassReturned =>
        LET N == Len(parts)
        IN /\ parts = chunks
           /\ Len(calls) = IF N = 1 THEN 1 ELSE N + 1
           /\ KindCount("fragment") = N
           /\ \A i \in 1..N : calls[i].kind = "fragment" /\ calls[i].index = i
           /\ KindCount("synthesis") = IF N > 1 THEN 1 ELSE 0

\* a diff of three fragments reviewed with four calls
C3_Witness ==
    /\ pc = "write"
    /\ Len(parts) = 3
    /\ Len(calls) = 4

\* C4: when every attempt of an invocation is answered by a retryable status, the
\* client issues exactly max_attempts requests and then fails with an error that
\* carries the last response's status; it never issues more than max_attempts
\* requests and never returns a result.
C4_ExhaustsAttempts ==
    /\ requests <= Max(max_attempts, 0)
    /\ (CallEnded /\ status_only /\ resp.kind = "http" /\ resp.status \in ClaimRetryable)
          => /\ lpc = "failed"
             /\ requests = max_attempts
             /\ err.type = "RuntimeError_http"
             /\ err.status = resp.status

\* C5: when the first k attempts are answered by a retryable status and attempt
\* k + 1 by HTTP 200 with valid JSON (k < max_attempts), the client succeeds on
\* attempt k + 1 after exactly k + 1 requests and k sleeps.  Stated for k >= 1.
C5_SucceedsAfterRetries ==
    (/\ CallEnded /\ status_only /\ attempt >= 2
     /\ resp.kind = "http" /\ resp.status = 200 /\ resp.body.shape # "not_json")
        => /\ lpc = "succeeded"
           /\ requests = attempt
           /\ nsleeps = attempt - 1

\* some call has ended in failure
AnyFailed == lpc = "failed" \/ \E i \in DOMAIN calls : calls[i].outcome = "failed"

\* C6: fail-fast with no partial output: once a fragment call or the synthesis
\* call has failed, it stays the last call made (no call for a later fragment or
\* for synthesis), multiple_pass returns no review, the output file is never
\* written, and the run ends with a non-zero status.
C6_FailFast ==
    AnyFailed =>
        /\ lpc = "failed"
        /\ calls # <<>>
        /\ \A i \in 1..(Len(calls) - 1) : calls[i].outcome = "ok"
        /\ calls[Len(calls)].kind = "fragment" => calls[Len(calls)].index = idx
        /\ pc \in {"single_wait", "frag_wait", "synth_wait", "exited"}
        /\ pc = "exited" => exit_code = 1
        /\ review = <<>>
        /\ out_file = NoFile

\* the call for the second of three fragments failed: the run ended with status 1
\* after two calls and without an output file
C6_Witness ==
    /\ Len(parts) = 3
    /\ Len(calls) = 2
    /\ calls[2].outcome = "failed"
    /\ pc = "exited"
    /\ exit_code = 1
    /\ out_file = NoFile

\* C7: calls are made strictly one after the other, synthesis last: when the
\* j-th call exists every earlier call has returned successfully, the j-th
\* fragment call is the one for fragment j, and the synthesis call comes after
\* the successful calls for all fragments.
C7_Sequential ==
    \A j \in DOMAIN calls :
        /\ \A i \in 1..(j - 1) : calls[i].outcome = "ok"
        /\ calls[j].kind = "fragment" => calls[j].index = j /\ j <= Len(parts)
        /\ calls[j].kind = "synthesis" =>
              /\ j = Len(parts) + 1
              /\ \A i \in 1..Len(parts) : calls[i].kind = "fragment"

\* the synthesis call retries after the three fragment calls have returned
C7_Witness ==
    /\ pc = "synth_wait"
    /\ Len(parts) = 3
    /\ Len(calls) = 4
    /\ requests >= 2
    /\ nsleeps >= 1

SynthesisIssued == \E i \in DOMAIN calls : calls[i].kind = "synthesis"

\* C8: the input of the synthesis call holds exactly N labels, Part 1 .. Part N in
\* that order, and the text under label i is the result of the call made for the
\* i-th fragment of the chunker's output.
C8_SynthesisLabels ==
    SynthesisIssued =>
        LET N == Len(chunks)
        IN /\ Len(synthesis) = N
           /\ \A i \in 1..N :
                /\ synthesis[i].label = i
                /\ calls[i].kind = "fragment"
                /\ calls[i].input = chunks[i]
                /\ synthesis[i].body = calls[i].result

\* three fragments, the first two reviewed with different results, and the
\* synthesis request issued
C8_Witness ==
    /\ pc = "synth_wait"
    /\ Len(chunks) = 3
    /\ Len(synthesis) = 3
    /\ synthesis[1].body # synthesis[2].body
    /\ requests >= 1

\* the Retry-After values that are numbers of seconds, in ms
ClaimNumeric(h) == h \in {"0.5", "5"}
ClaimMs(h) == IF h = "0.5" THEN 500 ELSE 5000

\* C9: a retryable response with attempts remaining is followed by a sleep; with a
\* numeric Retry-After of r seconds the sleep is at least r, and equals r when r
\* exceeds the computed jittered backoff; with a non-numeric or absent Retry-After
\* the sleep is the computed backoff.
C9_RetryAfterSleep ==
    (resp.kind = "http" /\ resp.status \in ClaimRetryable /\ attempt < max_attempts)
        => /\ lpc = "sleeping"
           /\ IF ClaimNumeric(resp.ra)
              THEN /\ sleep_s >= ClaimMs(resp.ra)
                   /\ ClaimMs(resp.ra) > backoff_s => sleep_s = ClaimMs(resp.ra)
              ELSE sleep_s = backoff_s

\* C10: a response whose status is neither 200 nor retryable makes the client fail
\* at once with an error carrying that status: no sleep is taken for it and no
\* further request is issued, even when attempts remain.
C10_OtherStatusFails ==
    (resp.kind = "http" /\ resp.status \notin ({200} \cup ClaimRetryable))
        => /\ lpc = "failed"
           /\ err = Error("RuntimeError_http", resp.status, attempt)
           /\ requests = attempt
           /\ nsleeps = attempt - 1

\* a 404 on the second of three attempts ends the invocation
C10_Witness ==
    /\ resp.status = 404
    /\ attempt = 2
    /\ max_attempts = 3
    /\ requests = 2
    /\ nsleeps = 1
    /\ lpc = "failed"

\* C11: an HTTP 200 response whose body is not valid JSON makes call_llm fail at
\* once with a parse error on that same attempt: it is not retried, no sleep is
\* taken for it and no further request is issued, however many attempts remain.
C11_BadJsonFails ==
    (resp.kind = "http" /\ resp.status = 200 /\ resp.body.shape = "not_json")
        => /\ lpc = "failed"
           /\ err = Error("ValueError_json", 200, attempt)
           /\ requests = attempt
           /\ nsleeps = attempt - 1
           /\ result = <<>>

\* a 200 with a non-JSON body on the first of three attempts ends the invocation
C11_Witness ==
    /\ resp.kind = "http" /\ resp.status = 200 /\ resp.body.shape = "not_json"
    /\ attempt = 1
    /\ max_attempts = 3
    /\ requests = 1
    /\ nsleeps = 0
    /\ lpc = "failed"

\* the JSON bodies in which choices[0].message.content is absent or not a string
ClaimNoContent == {"content_missing", "content_not_string", "choices_empty", "message_null"}

\* C12: an HTTP 200 response with valid JSON in which choices[0].message.content
\* is absent or not a string makes call_llm return the empty string as a
\* successful result on that attempt: it does not fail and does not retry.
C12_EmptyOnMissingContent ==
    (resp.kind = "http" /\ resp.status = 200 /\ resp.body.shape \in ClaimNoContent)
        => /\ lpc = "succeeded"
           /\ result = <<>>
           /\ err = NoErr
           /\ requests = attempt

\* C13: a network failure on attempt n is followed by a sleep and a retry when
\* n < max_attempts (the attempt after the sleep is inside the loop); when
\* n = max_attempts call_llm fails with a transport error naming the attempt
\* count, which equals max_attempts, and takes no sleep before failing.
C13_NetworkFailure ==
    /\ resp.kind = "network" =>
          IF attempt < max_attempts
          THEN /\ lpc = "sleeping"
               /\ requests = attempt
               /\ nsleeps = attempt
               /\ err = NoErr
          ELSE /\ lpc = "failed"
               /\ err = Error("RuntimeError_transport", 0, max_attempts)
               /\ requests = attempt
               /\ nsleeps = attempt - 1
    /\ (lpc = "attempting" /\ nsleeps >= 1) => attempt <= max_attempts

\* the third of three attempts met a network failure after two sleeps
C13_Witness ==
    /\ resp.kind = "network"
    /\ attempt = 3
    /\ max_attempts = 3
    /\ lpc = "failed"
    /\ err.attempts = 3
    /\ nsleeps = 2

\* b = min(maxBackoff, baseBackoff * 2^(n-1)), in ms
ClaimBase(n) ==
    IF base_backoff * 2^(n - 1) < max_backoff THEN base_backoff * 2^(n - 1)
    ELSE max_backoff

\* the sleep in progress is not one dictated by a larger Retry-After
ClaimBackoffSleep ==
    /\ lpc = "sleeping"
    /\ \/ resp.kind = "network"
       \/ ~(ClaimNumeric(resp.ra) /\ ClaimMs(resp.ra) > backoff_s)

\* C17: every sleep taken after a failed attempt n (network failure, or retryable
\* status without a larger Retry-After) has a duration d with
\* 0.7 * b <= d < 1.3 * b, b = min(maxBackoff, baseBackoff * 2^(n-1)); no such
\* sleep reaches 1.3 * maxBackoff.
C17_JitterBounds ==
    ClaimBackoffSleep =>
        /\ 70 * ClaimBase(attempt) <= 100 * sleep_s
        /\ 100 * sleep_s < 130 * ClaimBase(attempt)
        /\ 100 * sleep_s < 130 * max_backoff

\* a sleep after the second attempt, where the cap of 1500 ms replaces
\* 1000 * 2 ms, at the top of the jitter range drawn
C17_Witness ==
    /\ lpc = "sleeping"
    /\ attempt = 2
    /\ base_backoff = 1000
    /\ max_backoff = 1500
    /\ sleep_s = 1860

\* what holds of the counters of an invocation at every moment
C19_Counts ==
    /\ requests <= Max(max_attempts, 0)
    /\ nsleeps <= requests
    /\ (CallEnded /\ requests >= 1) => nsleeps <= requests - 1
    /\ lpc = "sleeping" => attempt < max_attempts
    /\ lpc = "attempting" => requests = attempt - 1
    /\ (lpc = "sleeping" \/ (CallEnded /\ requests >= 1)) => requests = attempt
    /\ lpc = "succeeded" => err = NoErr
    /\ lpc = "failed" => err # NoErr /\ result = <<>>
    /\ (CallEnded /\ max_attempts <= 0) => lpc = "failed" /\ requests = 0

\* C19: network failures and retryable statuses draw on one attempt counter: under
\* any interleaving of the two the requests issued never exceed max_attempts, an
\* ended invocation has taken at most requests - 1 sleeps, no sleep follows the
\* final attempt, and the invocation always ends, either succeeded (no error) or
\* failed (error raised, no result), also for max_attempts <= 0, where it fails
\* without a request.
C19_SharedCounter == []C19_Counts /\ <>CallEnded

\* a network failure and a retryable status were both met on the way to the third
\* and last attempt, which failed on a retryable status
C19_Witness ==
    /\ lpc = "failed"
    /\ ~status_only
    /\ resp.kind = "http" /\ resp.status \in ClaimRetryable
    /\ attempt = 3
    /\ max_attempts = 3
    /\ requests = 3
    /\ nsleeps = 2

\* the cut the claim places for the window that starts at off: the last marker
\* lying wholly inside [off, min(off + mc, len)) when it is past off + mc/2,
\* else the naive boundary
ClaimCut(t, off, mc) ==
    LET bound   == IF off + mc < Len(t) THEN off + mc ELSE Len(t)
        markers == {i \in off..(bound - 3) :
                       t[i + 1] = NL /\ t[i + 2] = AT /\ t[i + 3] = AT}
        last    == CHOOSE i \in markers : \A j \in markers : j <= i
    IN IF markers # {} /\ 2 * last > 2 * off + mc THEN last ELSE bound

\* the offset at which the last iteration of the loop started
PrevOffset == start - Len(chunks[Len(chunks)])

\* C14: in each iteration of the chunking loop, with window
\* [offset, min(offset + max_chars, len(text))), the cut is the last hunk marker
\* lying wholly inside the window if its position is strictly greater than
\* offset + max_chars/2; with no marker in the window, or the last one at or
\* before the midpoint, the cut is the naive boundary.
C14_CutPlacement ==
    (cpc = "loop" /\ chunks # <<>>) =>
        /\ start = ClaimCut(text, PrevOffset, max_chars)
        /\ chunks[Len(chunks)] = SubSeq(text, PrevOffset + 1, start)

\* the first iteration cut at a marker past the midpoint, before the naive boundary
C14_Witness ==
    /\ cpc = "loop"
    /\ Len(chunks) = 1
    /\ start > max_chars \div 2
    /\ start < max_chars
    /\ SubSeq(text, start + 1, start + 3) = HunkMarker

\* s is a prefix of t
ClaimPrefix(s, t) == Len(s) <= Len(t) /\ SubSeq(t, 1, Len(s)) = s

\* C18: for max_chars >= 1 every fragment returned by chunk_text has length at
\* most max_chars; when the loop stops with max_chunks fragments emitted and text
\* remaining, exactly one more fragment is appended, holding the first max_chars
\* characters of the remaining text; the fragments' concatenation is always a
\* prefix of the input.
C18_BoundedFragments ==
    (cpc = "returned" /\ max_chars >= 1) =>
        /\ \A i \in DOMAIN chunks : Len(chunks[i]) <= max_chars
        /\ ClaimPrefix(Concat(chunks), text)
        /\ (Len(text) > max_chars /\ start < Len(text)) =>
              /\ Len(chunks) = Max(max_chunks, 0) + 1
              /\ start = Len(Concat(SubSeq(chunks, 1, Len(chunks) - 1)))
              /\ chunks[Len(chunks)] =
                    SubSeq(text, start + 1,
                           IF start + max_chars < Len(text) THEN start + max_chars
                           ELSE Len(text))
        /\ (Len(text) > max_chars /\ start >= Len(text)) =>
              /\ Len(chunks) <= max_chunks
              /\ Concat(chunks) = text

\* the loop stopped at max_chunks with more than max_chars characters left: the
\* final fragment holds max_chars of them
C18_Witness ==
    /\ cpc = "returned"
    /\ max_chunks >= 1
    /\ Len(chunks) = max_chunks + 1
    /\ Len(text) - start > max_chars
    /\ Len(chunks[Len(chunks)]) = max_chars

\* C20: for max_chars >= 1 every iteration of the loop moves the offset strictly
\* forward, so that every fragment emitted by the loop is non-empty and the offset
\* is the sum of their lengths; the loop runs at most min(max_chunks, len(text))
\* iterations; chunk_text returns at least one fragment for every non-empty text,
\* and for max_chunks <= 0 the single fragment text[0:max_chars].
C20_Progress ==
    /\ (cpc = "loop" /\ max_chars >= 1) =>
          /\ \A i \in DOMAIN chunks : chunks[i] # <<>>
          /\ start = Len(Concat(chunks))
          /\ start <= Len(text)
          /\ Len(chunks) <= (IF max_chunks < Len(text) THEN max_chunks ELSE Len(text))
    /\ (cpc = "returned" /\ max_chars >= 1 /\ text # <<>>) =>
          /\ Len(chunks) >= 1
          /\ \A i \in DOMAIN chunks : chunks[i] # <<>>
          /\ max_chunks <= 0 =>
                chunks = <<SubSeq(text, 1, IF max_chars < Len(text) THEN max_chars
                                           ELSE Len(text))>>

\* the second iteration started on a hunk marker and still moved forward
C20_Witness ==
    /\ cpc = "loop"
    /\ Len(chunks) = 2
    /\ Len(chunks[2]) > 3
    /\ SubSeq(chunks[2], 1, 3) = HunkMarker
    /\ start > Len(chunks[1])

\* the run was given a missing required setting, an unreadable diff path, or an
\* empty or whitespace-only diff
ClaimBadInput ==
    \/ ~settings.url \/ ~settings.key \/ ~settings.model
    \/ ~diff_file.readable
    \/ \A i \in 1..Len(diff_file.content) : diff_file.content[i] \in {NL, SP}

\* C15: a run with a missing required setting, an unreadable diff path, or an
\* empty or whitespace-only diff ends with a non-zero exit status, having issued
\* no completion request and written no output file.
C15_AbortsBeforeRequests ==
    ClaimBadInput =>
        /\ pc \in {"main", "load", "exited"}
        /\ pc = "exited" => exit_code = 1
        /\ calls = <<>>
        /\ lpc = "idle"
        /\ requests = 0
        /\ out_file = NoFile

\* every required setting is present and the diff holds only newlines: the run
\* has ended with status 1
C15_Witness ==
    /\ settings.url /\ settings.key /\ settings.model
    /\ diff_file.readable
    /\ Len(diff_file.content) = 2
    /\ IsBlank(diff_file.content)
    /\ pc = "exited"
    /\ exit_code = 1

\* the source the claim resolves to: the first existing, readable file among the
\* explicit path (if given), .github/AGENTS.md and AGENTS.md, else the fallback
ClaimResolve(explicit, files) ==
    IF explicit /\ files["explicit"] = "text" THEN "explicit"
    ELSE IF files[".github/AGENTS.md"] = "text" THEN ".github/AGENTS.md"
    ELSE IF files["AGENTS.md"] = "text" THEN "AGENTS.md"
    ELSE "SYSTEM_FALLBACK"

\* C16: the resolver tries the explicit path if given, then .github/AGENTS.md and
\* AGENTS.md, then the built-in fallback; the first existing, readable file wins
\* and the resolver never fails: a missing explicit path leaves the conventional
\* paths to be tried, and an existing file that cannot be read does not raise.
C16_ResolverOrder ==
    rpc \notin {"idle", "entry"} =>
        /\ rpc = "returned"
        /\ system_text = ClaimResolve(explicit_path, fs)

====
